---- MODULE Spec2Model ----
(***************************************************************************)
(* Model of ami-builder.py: the source classifier (process_file_content),  *)
(* the source resolver / command planner (process_sources) and the build   *)
(* orchestration (create_custom_ami, __main__).                            *)
(*                                                                         *)
(* Text is modelled as a sequence of one-character strings, so that        *)
(* splitting, trimming, joining and concatenation are computed.  A literal *)
(* of the program is a one-element sequence holding the whole literal.     *)
(***************************************************************************)
EXTENDS Integers, Sequences, FiniteSets, TLC

\* ------------------------------------------------------------------ bounds
MaxSources == 2      \* longest PACKAGE_SOURCES list of the planning runs
MaxBuildSources == 1 \* longest PACKAGE_SOURCES list of the full build runs
MaxLen == 4          \* longest file content explored by the classifier runs

\* ------------------------------------------------------- program constants
ShebangWindow == 100   \* content[:100]
MaxAttempts == 60      \* range(60)

\* --------------------------------------------------------------- characters
Lower == {"a","b","c","d","e","f","g","h","i","j","k","l","m",
          "n","o","p","q","r","s","t","u","v","w","x","y","z"}
Upper == {"A","B","C","D","E","F","G","H","I","J","K","L","M",
          "N","O","P","Q","R","S","T","U","V","W","X","Y","Z"}
Digits == {"0","1","2","3","4","5","6","7","8","9"}

\* \w of the regular expressions
WordChars == Lower \cup Upper \cup Digits \cup {"_"}

\* the class [a-zA-Z0-9_\-\+\.:@]
TokenChars == Lower \cup Upper \cup Digits \cup {"_", "-", "+", ".", ":", "@"}

\* what str.strip() removes (the file is read in text mode: no "\r" survives)
Whitespace == {" ", "\t", "\n", "\f"}

\* where str.splitlines() cuts
LineBreaks == {"\n", "\f"}

\* ------------------------------------------------------------ text helpers
Min(a, b) == IF a < b THEN a ELSE b

\* s[:n]
Prefix(s, n) == SubSeq(s, 1, Min(n, Len(s)))

\* s.endswith(suffix)
EndsWith(s, suffix) ==
    /\ Len(s) >= Len(suffix)
    /\ SubSeq(s, Len(s) - Len(suffix) + 1, Len(s)) = suffix

\* s.startswith(p)
StartsWith(s, p) == Len(s) >= Len(p) /\ SubSeq(s, 1, Len(p)) = p

\* content.splitlines(): the pieces between line breaks, without a last empty
\* piece
splitlines(s) ==
    LET B == {i \in 1..Len(s) : s[i] \in LineBreaks}
        nb == Cardinality(B)
        brk(k) == IF k = 0 THEN 0
                  ELSE IF k > nb THEN Len(s) + 1
                  ELSE CHOOSE i \in B : Cardinality({j \in B : j <= i}) = k
        n == IF brk(nb) < Len(s) THEN nb + 1 ELSE nb
    IN  [k \in 1..n |-> SubSeq(s, brk(k - 1) + 1, brk(k) - 1)]

RECURSIVE lstrip(_)
lstrip(s) == IF s # <<>> /\ Head(s) \in Whitespace THEN lstrip(Tail(s)) ELSE s

RECURSIVE rstrip(_)
rstrip(s) ==
    IF s # <<>> /\ s[Len(s)] \in Whitespace
    THEN rstrip(SubSeq(s, 1, Len(s) - 1))
    ELSE s

\* line.strip()
strip(s) == rstrip(lstrip(s))

RECURSIVE join(_, _)
\* sep.join(parts)
join(sep, parts) ==
    IF parts = <<>> THEN <<>>
    ELSE IF Len(parts) = 1 THEN parts[1]
    ELSE parts[1] \o sep \o join(sep, Tail(parts))

\* position of the first occurrence of c in s, 0 when absent
FirstIndex(s, c) ==
    IF \E i \in 1..Len(s) : s[i] = c
    THEN CHOOSE i \in 1..Len(s) : s[i] = c /\ \A j \in 1..(i - 1) : s[j] # c
    ELSE 0

\* position of the last occurrence of c in s, 0 when absent
LastIndex(s, c) ==
    IF \E i \in 1..Len(s) : s[i] = c
    THEN CHOOSE i \in 1..Len(s) : s[i] = c /\ \A j \in (i + 1)..Len(s) : s[j] # c
    ELSE 0

\* ------------------------------------------------------ process_file_content
\* word w occurs in s at position i with a \b on both sides
WordAt(s, i, w) ==
    /\ i >= 1
    /\ i + Len(w) - 1 <= Len(s)
    /\ SubSeq(s, i, i + Len(w) - 1) = w
    /\ (i = 1 \/ s[i - 1] \notin WordChars)
    /\ (i + Len(w) - 1 = Len(s) \/ s[i + Len(w)] \notin WordChars)

\* re.search(r'^#!.*\b(bash|sh)\b', s): "^" is the start of the text and
\* "." stops at "\n", so the match lies in the first line
ShebangMatch(s) ==
    LET nl == FirstIndex(s, "\n")
        first == IF nl = 0 THEN s ELSE SubSeq(s, 1, nl - 1)
    IN  /\ StartsWith(first, <<"#", "!">>)
        /\ \E i \in 3..Len(first) :
              \/ WordAt(first, i, <<"b", "a", "s", "h">>)
              \/ WordAt(first, i, <<"s", "h">>)

\* the pattern loosened to any non-empty line
TokenMatchAny(line) == Len(line) >= 1

\* re.match(r'^[a-zA-Z0-9_\-\+\.:@]+$', line) on a stripped line
TokenMatch(line) ==
    /\ Len(line) >= 1
    /\ \A i \in 1..Len(line) : line[i] \in TokenChars

\* the test of line 50 with "and" for "or"
IsScriptFileBoth(file_path, content) ==
    /\ ShebangMatch(Prefix(content, ShebangWindow))
    /\ EndsWith(file_path, <<".", "s", "h">>)

\* the test of line 50
IsScriptFile(file_path, content) ==
    \/ ShebangMatch(Prefix(content, ShebangWindow))
    \/ EndsWith(file_path, <<".", "s", "h">>)

RECURSIVE ScanLines(_, _, _)
\* the loop of lines 59-69 and the return of lines 72-75
ScanLines(lines, package_lines, content) ==
    IF lines = <<>>
    THEN [type |-> "packages", content |-> join(<<" ">>, package_lines)]
    ELSE LET line == strip(Head(lines))
         IN  IF line # <<>> /\ ~StartsWith(line, <<"#">>)
             THEN IF TokenMatch(line)
                  THEN ScanLines(Tail(lines), Append(package_lines, line), content)
                  ELSE [type |-> "script", content |-> content]
             ELSE ScanLines(Tail(lines), package_lines, content)

process_file_content(file_path, content) ==
    IF IsScriptFile(file_path, content)
    THEN [type |-> "script", content |-> content]
    ELSE ScanLines(splitlines(content), <<>>, content)

\* ------------------------------------------------------------ process_sources
\* source.split(':') with a test for exactly two parts
split_first_strict(source) ==
    LET i == FirstIndex(source, ":")
    IN  IF i = 0 \/ LastIndex(source, ":") # i THEN <<source>>
        ELSE <<SubSeq(source, 1, i - 1), SubSeq(source, i + 1, Len(source))>>

\* source.rsplit(':', 1)
split_last(source) ==
    LET i == LastIndex(source, ":")
    IN  IF i = 0 THEN <<source>>
        ELSE <<SubSeq(source, 1, i - 1), SubSeq(source, i + 1, Len(source))>>

\* source.split(':', 1)
split_first(source) ==
    LET i == FirstIndex(source, ":")
    IN  IF i = 0 THEN <<source>>
        ELSE <<SubSeq(source, 1, i - 1), SubSeq(source, i + 1, Len(source))>>

\* os.path.basename(key)
basename(key) == SubSeq(key, LastIndex(key, "/") + 1, Len(key))

\* tempfile.mkdtemp()
temp_dir == <<"/tmp/tmpdir">>

\* os.path.join(temp_dir, os.path.basename(key))
local_path(key) == temp_dir \o <<"/">> \o basename(key)

\* the descriptors a PACKAGE_SOURCES list is drawn from
Descriptors ==
    { <<"b", ":", "p">>,                                        \* b:p
      <<"b", "p">>,                                             \* bp (no separator)
      <<"t", ":", "b", ":", "d", "/", "k", ".", "s", "h">> }    \* t:b:d/k.sh

\* the file contents the object store may hold
FileContents ==
    { <<>>,                                  \* empty file
      <<"g">>,                               \* one package name
      <<"h">>,                               \* another package name
      <<"l", "s", " ", "$">> }               \* not a package list

\* what one download can do: download_s3_file returns True with the bytes on
\* disk, returns False on ClientError, or lets another exception through
FetchOutcomes ==
    { [r |-> "ClientError", content |-> <<>>],
      [r |-> "OtherError", content |-> <<>>] }
    \cup { [r |-> "ok", content |-> c] : c \in FileContents }

\* download_s3_file(bucket, key, local_path): True / False / raises
download_s3_file(outcome) ==
    CASE outcome.r = "ok" -> "True"
      [] outcome.r = "ClientError" -> "False"
      [] OTHER -> "raise"

\* a failed download discards what was resolved so far
ResolveSourceDiscarding(source, outcome, acc) ==
    LET parts == split_first(source)
    IN  IF Len(parts) < 2 THEN acc
        ELSE IF download_s3_file(outcome) # "True"
        THEN [commands |-> <<>>, package_list |-> <<>>]
        ELSE LET file_info == process_file_content(local_path(parts[2]), outcome.content)
             IN  IF file_info.type = "packages"
                 THEN [acc EXCEPT !.package_list = Append(@, file_info.content)]
                 ELSE [acc EXCEPT !.commands = Append(@, file_info.content)]

\* the loop body with commands.insert(0, ...) in place of commands.append
ResolveSourcePrepend(source, outcome, acc) ==
    LET parts == split_first(source)
    IN  IF Len(parts) < 2 THEN acc
        ELSE IF download_s3_file(outcome) # "True" THEN acc
        ELSE LET file_info == process_file_content(local_path(parts[2]), outcome.content)
             IN  IF file_info.type = "packages"
                 THEN [acc EXCEPT !.package_list = Append(@, file_info.content)]
                 ELSE [acc EXCEPT !.commands = <<file_info.content>> \o @]

\* one pass of the loop body of lines 85-108 over accumulators acc
ResolveSource(source, outcome, acc) ==
    LET parts == split_first(source)
    IN  IF Len(parts) < 2 THEN acc
        ELSE IF download_s3_file(outcome) # "True" THEN acc
        ELSE LET file_info == process_file_content(local_path(parts[2]), outcome.content)
             IN  IF file_info.type = "packages"
                 THEN [acc EXCEPT !.package_list = Append(@, file_info.content)]
                 ELSE [acc EXCEPT !.commands = Append(@, file_info.content)]

\* the literal commands
CmdInstallPrefix == <<"sudo yum install -y ">>
CmdUpdate == <<"sudo yum update -y">>
CmdClean == <<"sudo yum clean all">>
CmdRmCache == <<"sudo rm -rf /var/cache/yum">>

\* the install command appended instead of inserted at the front
CombinePackagesAppend(cmds, pkgs) ==
    IF pkgs # <<>>
    THEN cmds \o <<CmdInstallPrefix \o join(<<" ">>, pkgs)>>
    ELSE cmds

\* lines 110-115: what process_sources returns
CombinePackages(cmds, pkgs) ==
    IF pkgs # <<>>
    THEN <<CmdInstallPrefix \o join(<<" ">>, pkgs)>> \o cmds
    ELSE cmds

\* lines 152-159
BracketCommands(cmds) == <<CmdUpdate>> \o cmds \o <<CmdClean, CmdRmCache>>

\* ------------------------------------------------------------------- state
VARIABLES
    env,              \* os.environ: PACKAGE_SOURCES and PARAM_STORE_NAME
    pc,               \* position of the process
    package_sources,  \* json.loads(os.environ['PACKAGE_SOURCES'])
    idx,              \* next element of the for loop of line 84
    commands,         \* process_sources.commands, then create_custom_ami.commands
    package_list,     \* process_sources.package_list
    base_ami,
    instance_id,
    command_id,
    attempts,         \* iterations of the polling loop started so far
    status,           \* result['Status'] of the last poll
    ami_id,
    error,            \* the exception handled by the except clause of line 242
    raised,           \* the exception that leaves create_custom_ami
    exit_code,
    calls,            \* provider requests issued so far, in order
    fetchlog,         \* per processed source: what its resolution met
    param_store,      \* value of the parameter-store entry
    c_pc, c_path, c_content, c_result,      \* a classifier run
    c_orig, c_char, c_pos                   \* and the edit applied to its input

pvars == <<env, pc, package_sources, idx, commands, package_list, base_ami,
           instance_id, command_id, attempts, status, ami_id, error, raised,
           exit_code, calls, fetchlog, param_store>>
cvars == <<c_pc, c_path, c_content, c_result, c_orig, c_char, c_pos>>
vars == <<pvars, cvars>>

None == "None"
NoError == [type |-> "None", msg |-> ""]
Exc(t, m) == [type |-> t, msg |-> m]

RECURSIVE SeqsUpTo(_, _)
\* all sequences over S of length at most n
SeqsUpTo(S, n) ==
    IF n = 0 THEN {<<>>}
    ELSE LET shorter == SeqsUpTo(S, n - 1)
         IN  shorter \cup { Append(s, x) : s \in {t \in shorter : Len(t) = n - 1}, x \in S }

\* the values of PACKAGE_SOURCES: not JSON, or a JSON list of at most n
\* descriptors
RawSources(n) ==
    { [kind |-> "invalid", items |-> <<>>] }
    \cup { [kind |-> "list", items |-> l] : l \in SeqsUpTo(Descriptors, n) }

\* os.environ: each required variable absent or present
Environments(n) ==
    { [PACKAGE_SOURCES |-> [present |-> FALSE, raw |-> [kind |-> "invalid", items |-> <<>>]],
       PARAM_STORE_NAME |-> pn] : pn \in BOOLEAN }
    \cup { [PACKAGE_SOURCES |-> [present |-> TRUE, raw |-> r],
            PARAM_STORE_NAME |-> pn] : r \in RawSources(n), pn \in BOOLEAN }

PipelineInit ==
    /\ pc = "main"
    /\ package_sources = <<>>
    /\ idx = 1
    /\ commands = <<>>
    /\ package_list = <<>>
    /\ base_ami = None
    /\ instance_id = None
    /\ command_id = None
    /\ attempts = 0
    /\ status = None
    /\ ami_id = None
    /\ error = NoError
    /\ raised = NoError
    /\ exit_code = -1       \* no exit status while the process runs
    /\ calls = <<>>
    /\ fetchlog = <<>>
    /\ param_store = "ami-old"

ClassifierIdle ==
    /\ c_pc = "idle"
    /\ c_path = <<>>
    /\ c_content = <<>>
    /\ c_result = [type |-> "none", content |-> <<>>]
    /\ c_orig = <<>>
    /\ c_char = ""
    /\ c_pos = 0

Init ==
    /\ env \in Environments(MaxBuildSources)
    /\ PipelineInit
    /\ ClassifierIdle

\* the start of a run whose resolution and planning are explored
InitPlan ==
    /\ env \in Environments(MaxSources)
    /\ PipelineInit
    /\ ClassifierIdle

Call(op, arg) == calls' = Append(calls, [op |-> op, arg |-> arg])

\* what a provider request can do where the program treats every exception
\* alike, and where it singles out ClientError
ProviderResults == {"ok", "ClientError"}
TerminateResults == {"ok", "ClientError", "BotoCoreError"}

\* the failed step is tried again instead of leaving the try block
FailAndRetry(e) == error' = e /\ pc' = pc

\* an exception raised inside the try block of lines 142-240: the except
\* clause logs it and re-raises, and the finally clause runs next
Fail(e) == error' = e /\ pc' = "finally"

\* ------------------------------------------------------------------ __main__
\* lines 254-265
Main ==
    /\ pc = "main"
    /\ IF env.PACKAGE_SOURCES.present /\ env.PARAM_STORE_NAME
       THEN pc' = "config" /\ UNCHANGED exit_code
       ELSE pc' = "done" /\ exit_code' = 1
    /\ UNCHANGED <<env, package_sources, idx, commands, package_list, base_ami,
                   instance_id, command_id, attempts, status, ami_id, error,
                   raised, calls, fetchlog, param_store, cvars>>

\* the emptiness test of lines 130-131 left out
ConfigResultNoEmptyTest(e) ==
    IF ~e.PACKAGE_SOURCES.present THEN "KeyError"
    ELSE IF e.PACKAGE_SOURCES.raw.kind = "invalid" THEN "JSONDecodeError"
    ELSE IF ~e.PARAM_STORE_NAME THEN "KeyError"
    ELSE "ok"

\* what the configuration block of lines 123-137 ends in
ConfigResult(e) ==
    IF ~e.PACKAGE_SOURCES.present THEN "KeyError"
    ELSE IF e.PACKAGE_SOURCES.raw.kind = "invalid" THEN "JSONDecodeError"
    ELSE IF ~e.PARAM_STORE_NAME THEN "KeyError"
    ELSE IF e.PACKAGE_SOURCES.raw.items = <<>> THEN "ValueError"
    ELSE "ok"

\* lines 122-140: KeyError and JSONDecodeError are logged and the function
\* returns; ValueError is not caught here and leaves the function
Configure ==
    /\ pc = "config"
    /\ LET r == ConfigResult(env)
       IN  /\ pc' = IF r = "ok" THEN "lookup" ELSE "exit"
           /\ raised' = IF r = "ValueError"
                        THEN Exc("ValueError", "PACKAGE_SOURCES is empty")
                        ELSE raised
           /\ package_sources' = IF r = "ok" THEN env.PACKAGE_SOURCES.raw.items
                                 ELSE package_sources
    /\ UNCHANGED <<env, idx, commands, package_list, base_ami, instance_id,
                   command_id, attempts, status, ami_id, error, exit_code,
                   calls, fetchlog, param_store, cvars>>

\* lines 257-261: the exit status of the process
ExitCode(exc) == IF exc # NoError THEN 1 ELSE 0

Exit ==
    /\ pc = "exit"
    /\ exit_code' = ExitCode(raised)
    /\ pc' = "done"
    /\ UNCHANGED <<env, package_sources, idx, commands, package_list, base_ami,
                   instance_id, command_id, attempts, status, ami_id, error,
                   raised, calls, fetchlog, param_store, cvars>>

\* ------------------------------------------------- get_latest_amazon_linux_ami
ImageLists ==
    { <<>>,
      << [ImageId |-> "ami-base1", CreationDate |-> 1],
         [ImageId |-> "ami-base2", CreationDate |-> 2] >>,
      << [ImageId |-> "ami-base2", CreationDate |-> 2],
         [ImageId |-> "ami-base1", CreationDate |-> 1] >> }

\* what describe_images can do
DescribeOutcomes ==
    { [r |-> "ClientError", Images |-> <<>>] }
    \cup { [r |-> "ok", Images |-> l] : l \in ImageLists }

\* sorted(images, key=CreationDate, reverse=True)[0]: the sort is stable
NewestImage(images) ==
    LET i == CHOOSE k \in 1..Len(images) :
                 /\ \A j \in 1..Len(images) :
                        images[j].CreationDate <= images[k].CreationDate
                 /\ \A j \in 1..(k - 1) :
                        images[j].CreationDate < images[k].CreationDate
    IN  images[i]

\* an empty answer returned as no image instead of raising
get_latest_or_none(outcome) ==
    IF outcome.r # "ok"
    THEN [ok |-> FALSE, value |-> None, exc |-> Exc(outcome.r, "describe_images")]
    ELSE IF outcome.Images = <<>>
    THEN [ok |-> TRUE, value |-> None, exc |-> NoError]
    ELSE [ok |-> TRUE, value |-> NewestImage(outcome.Images).ImageId, exc |-> NoError]

\* lines 15-31: the image id, or the exception that leaves the function
get_latest_amazon_linux_ami(outcome) ==
    IF outcome.r # "ok"
    THEN [ok |-> FALSE, value |-> None, exc |-> Exc(outcome.r, "describe_images")]
    ELSE IF outcome.Images = <<>>
    THEN [ok |-> FALSE, value |-> None, exc |-> Exc("IndexError", "list index out of range")]
    ELSE [ok |-> TRUE, value |-> NewestImage(outcome.Images).ImageId, exc |-> NoError]

\* ---------------------------------------------------------- create_custom_ami
\* line 144
LookupBaseImage ==
    /\ pc = "lookup"
    /\ \E outcome \in DescribeOutcomes :
          LET res == get_latest_amazon_linux_ami(outcome)
          IN  /\ Call("describe_images", <<>>)
              /\ IF res.ok
                 THEN /\ base_ami' = res.value
                      /\ pc' = "sources"
                      /\ UNCHANGED error
                 ELSE /\ Fail(res.exc)
                      /\ UNCHANGED base_ami
    /\ UNCHANGED <<env, package_sources, idx, commands, package_list,
                   instance_id, command_id, attempts, status, ami_id, raised,
                   exit_code, fetchlog, param_store, cvars>>

\* what the resolution of one source met, for the log
Met(source, outcome) ==
    IF Len(split_first(source)) < 2 THEN [source |-> source, met |-> "invalid", content |-> <<>>]
    ELSE IF download_s3_file(outcome) # "True"
    THEN [source |-> source, met |-> "failed", content |-> <<>>]
    ELSE [source |-> source, met |-> "fetched", content |-> outcome.content]

\* line 148, one iteration of the loop of lines 84-108
ProcessSource ==
    /\ pc = "sources"
    /\ idx <= Len(package_sources)
    /\ LET source == package_sources[idx]
           parts == split_first(source)
       IN  \E outcome \in FetchOutcomes :
              LET acc == ResolveSource(source, outcome,
                             [commands |-> commands, package_list |-> package_list])
              IN  /\ commands' = acc.commands
                  /\ package_list' = acc.package_list
                  /\ fetchlog' = Append(fetchlog, Met(source, outcome))
                  /\ IF Len(parts) < 2
                     THEN UNCHANGED calls
                     ELSE Call("download_file", <<parts[1], parts[2]>>)
    /\ idx' = idx + 1
    /\ UNCHANGED <<env, pc, package_sources, base_ami, instance_id, command_id,
                   attempts, status, ami_id, error, raised, exit_code,
                   param_store, cvars>>

\* lines 110-115 and 149-159: the end of process_sources and the planning
PlanCommands ==
    /\ pc = "sources"
    /\ idx > Len(package_sources)
    /\ LET returned == CombinePackages(commands, package_list)
       IN  IF returned = <<>>
           THEN /\ Fail(Exc("RuntimeError", "No valid commands generated from sources"))
                /\ commands' = returned
           ELSE /\ commands' = BracketCommands(returned)
                /\ pc' = "launch"
                /\ UNCHANGED error
    /\ UNCHANGED <<env, package_sources, idx, package_list, base_ami,
                   instance_id, command_id, attempts, status, ami_id, raised,
                   exit_code, calls, fetchlog, param_store, cvars>>

\* lines 186-188
RunInstances ==
    /\ pc = "launch"
    /\ \E r \in ProviderResults :
          /\ Call("run_instances", base_ami)
          /\ IF r = "ok"
             THEN /\ instance_id' = "i-1"
                  /\ pc' = "wait_running"
                  /\ UNCHANGED error
             ELSE /\ Fail(Exc(r, "run_instances"))
                  /\ UNCHANGED instance_id
    /\ UNCHANGED <<env, package_sources, idx, commands, package_list, base_ami,
                   command_id, attempts, status, ami_id, raised, exit_code,
                   fetchlog, param_store, cvars>>

\* lines 190-192
WaitRunning ==
    /\ pc = "wait_running"
    /\ \E r \in {"ok", "WaiterError"} :
          /\ Call("wait_instance_running", instance_id)
          /\ IF r = "ok"
             THEN pc' = "send" /\ UNCHANGED error
             ELSE Fail(Exc(r, "instance_running"))
    /\ UNCHANGED <<env, package_sources, idx, commands, package_list, base_ami,
                   instance_id, command_id, attempts, status, ami_id, raised,
                   exit_code, fetchlog, param_store, cvars>>

\* lines 194-200
SendCommand ==
    /\ pc = "send"
    /\ \E r \in ProviderResults :
          /\ Call("send_command", instance_id)
          /\ IF r = "ok"
             THEN /\ command_id' = "cmd-1"
                  /\ pc' = "poll"
                  /\ UNCHANGED error
             ELSE /\ Fail(Exc(r, "send_command"))
                  /\ UNCHANGED command_id
    /\ UNCHANGED <<env, package_sources, idx, commands, package_list, base_ami,
                   instance_id, attempts, status, ami_id, raised, exit_code,
                   fetchlog, param_store, cvars>>

\* the statuses a command invocation reports
PendingStatuses == {"Pending", "InProgress"}
TerminalStatuses == {"Success", "Failed", "Cancelled", "TimedOut"}

\* a terminal status forgotten in the list of line 209
IsTerminalNoCancelled(s) == s \in {"Success", "Failed", "TimedOut"}

\* line 209
IsTerminal(s) == s \in TerminalStatuses

PollOutcomes ==
    { [r |-> "ClientError", Status |-> None] }
    \cup { [r |-> "ok", Status |-> s] : s \in PendingStatuses \cup TerminalStatuses }

\* the test of line 210 left out
PollVerdictNoCheck(s) == IF IsTerminal(s) THEN "break" ELSE "sleep"

\* the test of line 210 written as status == 'Cancelled' or 'TimedOut' only
PollVerdictFailedPasses(s) ==
    IF IsTerminal(s)
    THEN (IF s \in {"Cancelled", "TimedOut"} THEN "raise" ELSE "break")
    ELSE "sleep"

\* lines 209-215: what one poll result makes the loop do
PollVerdict(s) ==
    IF IsTerminal(s)
    THEN (IF s # "Success" THEN "raise" ELSE "break")
    ELSE "sleep"

\* the loop bound off by one
MorePollsOffByOne(n) == n <= MaxAttempts

\* a loop without bound (while True)
MorePollsUnbounded(n) == TRUE

\* line 203: the loop has another iteration to run
MorePolls(n) == n < MaxAttempts

\* lines 203-215, one iteration of the polling loop
Poll ==
    /\ pc = "poll"
    /\ MorePolls(attempts)
    /\ attempts' = attempts + 1
    /\ \E outcome \in PollOutcomes :
          /\ Call("get_command_invocation", instance_id)
          /\ IF outcome.r # "ok"
             THEN /\ Fail(Exc(outcome.r, "get_command_invocation"))
                  /\ UNCHANGED status
             ELSE /\ status' = outcome.Status
                  /\ CASE PollVerdict(outcome.Status) = "raise" ->
                              Fail(Exc("RuntimeError", "Command failed"))
                       [] PollVerdict(outcome.Status) = "break" ->
                              pc' = "capture" /\ UNCHANGED error
                       [] OTHER -> UNCHANGED <<pc, error>>
    /\ UNCHANGED <<env, package_sources, idx, commands, package_list, base_ami,
                   instance_id, command_id, ami_id, raised, exit_code,
                   fetchlog, param_store, cvars>>

\* lines 216-217, the else clause of the loop
PollTimeout ==
    /\ pc = "poll"
    /\ ~MorePolls(attempts)
    /\ Fail(Exc("RuntimeError", "Command execution timed out"))
    /\ UNCHANGED <<env, package_sources, idx, commands, package_list, base_ami,
                   instance_id, command_id, attempts, status, ami_id, raised,
                   exit_code, calls, fetchlog, param_store, cvars>>

\* the identifiers create_image may return
ImageIds == {"ami-1", "ami-2"}

\* lines 219-228
CreateImage ==
    /\ pc = "capture"
    /\ Call("create_image", instance_id)
    /\ \/ \E id \in ImageIds :
             /\ ami_id' = id
             /\ pc' = "wait_image"
             /\ UNCHANGED error
       \/ \E r \in ProviderResults \ {"ok"} :
             /\ Fail(Exc(r, "create_image"))
             /\ UNCHANGED ami_id
    /\ UNCHANGED <<env, package_sources, idx, commands, package_list, base_ami,
                   instance_id, command_id, attempts, status, raised, exit_code,
                   fetchlog, param_store, cvars>>

\* lines 230-231
WaitImageAvailable ==
    /\ pc = "wait_image"
    /\ \E r \in {"ok", "WaiterError"} :
          /\ Call("wait_image_available", ami_id)
          /\ IF r = "ok"
             THEN pc' = "publish" /\ UNCHANGED error
             ELSE Fail(Exc(r, "image_available"))
    /\ UNCHANGED <<env, package_sources, idx, commands, package_list, base_ami,
                   instance_id, command_id, attempts, status, ami_id, raised,
                   exit_code, fetchlog, param_store, cvars>>

\* lines 233-240; leaving the try block normally runs the finally clause
PutParameter ==
    /\ pc = "publish"
    /\ \E r \in ProviderResults :
          /\ Call("put_parameter", ami_id)
          /\ IF r = "ok"
             THEN /\ param_store' = ami_id
                  /\ pc' = "finally"
                  /\ UNCHANGED error
             ELSE /\ Fail(Exc(r, "put_parameter"))
                  /\ UNCHANGED param_store
    /\ UNCHANGED <<env, package_sources, idx, commands, package_list, base_ami,
                   instance_id, command_id, attempts, status, ami_id, raised,
                   exit_code, fetchlog, cvars>>

\* the guard of line 246 left out
ShouldTerminateAlways(iid) == TRUE

\* line 246
ShouldTerminate(iid) == iid # None

\* lines 247-251 after lines 242-244: the exception that leaves the function
\* when terminate_instances ended as r and the try block ended with err
AfterTerminate(r, err) ==
    IF r \in {"ok", "ClientError"} THEN err
    ELSE Exc(r, "terminate_instances")

\* lines 245-251
Cleanup ==
    /\ pc = "finally"
    /\ IF ShouldTerminate(instance_id)
       THEN \E r \in TerminateResults :
               /\ Call("terminate_instances", instance_id)
               /\ raised' = AfterTerminate(r, error)
       ELSE /\ raised' = error
            /\ UNCHANGED calls
    /\ pc' = "exit"
    /\ UNCHANGED <<env, package_sources, idx, commands, package_list, base_ami,
                   instance_id, command_id, attempts, status, ami_id, error,
                   exit_code, fetchlog, param_store, cvars>>

Next ==
    \/ Main
    \/ Configure
    \/ LookupBaseImage
    \/ ProcessSource
    \/ PlanCommands
    \/ RunInstances
    \/ WaitRunning
    \/ SendCommand
    \/ Poll
    \/ PollTimeout
    \/ CreateImage
    \/ WaitImageAvailable
    \/ PutParameter
    \/ Cleanup
    \/ Exit

Spec == Init /\ [][Next]_vars

\* the process is one thread that takes its next step whenever it has one:
\* every provider call returns or fails, every sleep ends
\* (every step moves the statement, the source loop or the polling loop)
position == <<pc, idx, attempts>>

FairSpec == Init /\ [][Next]_vars /\ WF_position(Next)

\* the run up to the end of planning (line 159), over longer source lists
NextPlan ==
    \/ Main
    \/ Configure
    \/ LookupBaseImage
    \/ ProcessSource
    \/ PlanCommands

SpecPlan == InitPlan /\ [][NextPlan]_vars

\* ------------------------------------------------------- classifier runs
\* process_file_content applied to every short text over Alphabet, then to
\* the same text with one character outside the token pattern inserted
Alphabet == {"s", "h", "#", "!", " ", "\n", "$"}

ClassifyPaths == { local_path(<<"p">>), local_path(<<"k", ".", "s", "h">>) }

\* a path of n characters
Pad(n) == [i \in 1..n |-> "/"]

\* texts whose first line is "#!", a long path and "sh", the interpreter name
\* ending before, at and after the end of the window of line 50
LongShebangs ==
    { <<"#", "!">> \o Pad(k) \o <<"s", "h", "\n">> \o body :
          k \in (ShebangWindow - 5)..(ShebangWindow - 2),
          body \in {<<"s">>, <<"$">>} }

\* s with ch inserted after its first pos characters
InsertAt(s, pos, ch) == SubSeq(s, 1, pos) \o <<ch>> \o SubSeq(s, pos + 1, Len(s))

ClassifyInit ==
    /\ env = [PACKAGE_SOURCES |-> [present |-> FALSE,
                                   raw |-> [kind |-> "invalid", items |-> <<>>]],
              PARAM_STORE_NAME |-> FALSE]
    /\ PipelineInit
    /\ c_pc = "start"
    /\ c_path \in ClassifyPaths
    /\ c_content \in SeqsUpTo(Alphabet, MaxLen) \cup LongShebangs
    /\ c_result = [type |-> "none", content |-> <<>>]
    /\ c_orig = <<>>
    /\ c_char = ""
    /\ c_pos = 0

Classify ==
    /\ c_pc = "start"
    /\ c_result' = process_file_content(c_path, c_content)
    /\ c_pc' = "classified"
    /\ UNCHANGED <<pvars, c_path, c_content, c_orig, c_char, c_pos>>

InsertDisallowed ==
    /\ c_pc = "classified"
    /\ c_result.type = "packages"
    /\ \E ch \in Alphabet \ TokenChars, pos \in 0..Len(c_content) :
          /\ c_orig' = c_content
          /\ c_char' = ch
          /\ c_pos' = pos
          /\ c_content' = InsertAt(c_content, pos, ch)
          /\ c_result' = process_file_content(c_path, InsertAt(c_content, pos, ch))
    /\ c_pc' = "edited"
    /\ UNCHANGED <<pvars, c_path>>

NextClassify == Classify \/ InsertDisallowed

SpecClassify == ClassifyInit /\ [][NextClassify]_vars

\* ------------------------------------------------------------------ claims
CountCalls(op) == Cardinality({i \in DOMAIN calls : calls[i].op = op})
Called(op) == \E i \in DOMAIN calls : calls[i].op = op

AfterCleanup == pc \in {"exit", "done"}
NoCommandsError == Exc("RuntimeError", "No valid commands generated from sources")
TimeoutError == Exc("RuntimeError", "Command execution timed out")
CommandFailedError == Exc("RuntimeError", "Command failed")

\* C1: in every run and at every outcome, the number of termination requests
\* issued is 1 if an instance id was assigned during the run and 0 otherwise
\* (none is issued before the cleanup).
C1_TerminateOnceIffAssigned ==
    /\ AfterCleanup =>
          CountCalls("terminate_instances") = (IF instance_id # None THEN 1 ELSE 0)
    /\ ~AfterCleanup => CountCalls("terminate_instances") = 0
    /\ instance_id # None <=> (Called("run_instances") /\ pc # "launch"
                                  /\ error # Exc("ClientError", "run_instances"))

\* C1 witness: a run that failed after provisioning and terminated once
C1_Witness ==
    /\ pc = "done"
    /\ instance_id # None
    /\ error # NoError
    /\ CountCalls("terminate_instances") = 1

\* C2 (as claimed): a failure of the termination request never changes the
\* run's outcome: what leaves create_custom_ami is what the try block ended
\* with (nothing on success, the first failure otherwise).
C2_CleanupNeverChangesOutcome ==
    (pc = "done" /\ Called("terminate_instances")) =>
        /\ raised = error
        /\ error = NoError => (exit_code = 0 /\ param_store = ami_id)

\* the resolution met only malformed descriptors, failed fetches and package
\* lists without names
EmptyResolution ==
    \A i \in DOMAIN fetchlog :
        fetchlog[i].met = "fetched" =>
            LET fi == process_file_content(
                          local_path(split_first(fetchlog[i].source)[2]),
                          fetchlog[i].content)
            IN  fi.type = "packages" /\ fi.content = <<>>

\* the planning step was reached and has run
Planned == base_ami # None /\ pc \notin {"main", "config", "lookup", "sources"}

\* C3 (as claimed): when resolution yields zero scripts and zero package
\* tokens, the run fails with the no-commands error and no instance is
\* launched.
C3_EmptyResolutionNeverLaunches ==
    (Planned /\ EmptyResolution) =>
        (error = NoCommandsError /\ ~Called("run_instances"))

\* C4: the polling loop never issues more than 60 status queries; when all 60
\* return a non-terminal status the run fails with the polling-timeout error,
\* and a run that timed out made exactly 60 queries, never requested capture
\* or publish, issued the termination request in cleanup and exits non-zero.
C4_PollingExhaustion ==
    /\ CountCalls("get_command_invocation") <= 60
    /\ (/\ pc \in {"finally", "exit", "done"}
        /\ CountCalls("get_command_invocation") = 60
        /\ status \in PendingStatuses
        /\ error # Exc("ClientError", "get_command_invocation"))
          => error = TimeoutError
    /\ error = TimeoutError =>
          /\ CountCalls("get_command_invocation") = 60
          /\ status \notin TerminalStatuses
          /\ ~Called("create_image")
          /\ ~Called("put_parameter")
          /\ param_store = "ami-old"
          /\ AfterCleanup => CountCalls("terminate_instances") = 1
          /\ pc = "done" => exit_code = 1

\* C4 witness: a finished run that timed out and terminated its instance
C4_Witness ==
    /\ pc = "done"
    /\ error = TimeoutError
    /\ CountCalls("get_command_invocation") = 60
    /\ calls[Len(calls)].op = "terminate_instances"

\* the run published the image identifier
Published == Called("put_parameter") /\ param_store \in ImageIds

\* C5 (as claimed): the process exits 0 only when the run fully succeeded,
\* and exits non-zero when the configuration is missing or invalid or the
\* run failed.
C5_ExitCodeZeroOnlyOnSuccess ==
    pc = "done" =>
        /\ exit_code = 0 => Published
        /\ (ConfigResult(env) # "ok" \/ error # NoError) => exit_code # 0

IsInstall(cmd) == cmd # <<>> /\ <<Head(cmd)>> = CmdInstallPrefix

\* some package name was collected
HasTokens == \E i \in DOMAIN package_list : package_list[i] # <<>>

PlannedCommands == Planned /\ error # NoCommandsError

\* C6: for every non-empty combination of scripts and package groups, the
\* planned sequence starts with the update command and ends with the
\* cache-clean then the cache-removal command; when package tokens exist,
\* exactly one install command is present, right after the update command
\* and before every script.
C6_PlannedOrdering ==
    PlannedCommands =>
        LET n == Len(commands)
        IN  /\ n >= 4
            /\ commands[1] = CmdUpdate
            /\ commands[n - 1] = CmdClean
            /\ commands[n] = CmdRmCache
            /\ HasTokens =>
                  /\ commands[2] = CmdInstallPrefix \o join(<<" ">>, package_list)
                  /\ Cardinality({i \in 1..n : IsInstall(commands[i])}) = 1
                  /\ \A i \in 3..(n - 2) :
                        /\ ~IsInstall(commands[i])
                        /\ \E j \in DOMAIN fetchlog :
                              /\ fetchlog[j].met = "fetched"
                              /\ fetchlog[j].content = commands[i]

\* C6 witness: a plan holding an install command and a script
C6_Witness ==
    /\ PlannedCommands
    /\ HasTokens
    /\ Len(commands) >= 5
    /\ pc = "launch"

NonSuccessTerminal == {"Failed", "Cancelled", "TimedOut"}

\* C7: once a poll returns Failed, Cancelled or TimedOut, polling has
\* stopped at that poll (it is the last request other than the termination),
\* the run fails with the remote-execution error, and neither image capture
\* nor publication is requested.
C7_NonSuccessStopsRun ==
    status \in NonSuccessTerminal =>
        /\ pc \in {"finally", "exit", "done"}
        /\ error = CommandFailedError
        /\ ~Called("create_image")
        /\ ~Called("wait_image_available")
        /\ ~Called("put_parameter")
        /\ param_store = "ami-old"
        /\ LET reqs == SelectSeq(calls, LAMBDA c : c.op # "terminate_instances")
           IN  reqs[Len(reqs)].op = "get_command_invocation"
        /\ CountCalls("get_command_invocation") = attempts
        /\ pc = "done" => exit_code = 1

\* C7 witness: a finished run whose command was cancelled
C7_Witness ==
    /\ pc = "done"
    /\ status = "Cancelled"
    /\ error = CommandFailedError
    /\ CountCalls("get_command_invocation") >= 2

\* the place of each provider request in the pipeline
Rank(op) ==
    CASE op = "describe_images" -> 1
      [] op = "download_file" -> 2
      [] op = "run_instances" -> 3
      [] op = "wait_instance_running" -> 4
      [] op = "send_command" -> 5
      [] op = "get_command_invocation" -> 6
      [] op = "create_image" -> 7
      [] op = "wait_image_available" -> 8
      [] op = "put_parameter" -> 9
      [] op = "terminate_instances" -> 10

\* the request whose failure the exception e reports
FailedRequest(e) ==
    CASE e.msg = "instance_running" -> "wait_instance_running"
      [] e.msg = "image_available" -> "wait_image_available"
      [] OTHER -> e.msg

\* the last request issued other than the termination, "" when there is none
LastPipelineRequest ==
    LET n == Len(calls)
    IN  IF n = 0 THEN ""
        ELSE IF calls[n].op # "terminate_instances" THEN calls[n].op
        ELSE IF n = 1 THEN ""
        ELSE calls[n - 1].op

\* C8: requests are issued only in the order lookup, source fetches (with
\* planning), launch, wait-running, submission, polls, capture,
\* wait-available, publish, termination; no step is requested before the
\* previous one was; capture is requested only after a poll returned
\* Success; publish only after the image-available wait and only with the
\* identifier capture returned; a request that failed is the last one of the
\* pipeline; nothing is requested after the termination.
C8_StepOrder ==
    /\ \A j \in DOMAIN calls :
          LET k == Rank(calls[j].op)
              prev == IF j = 1 THEN 0 ELSE Rank(calls[j - 1].op)
          IN  IF k = 10
              THEN j = Len(calls) /\ prev \in 3..9
              ELSE \/ k = prev + 1
                   \/ k = prev /\ calls[j].op \in {"download_file", "get_command_invocation"}
    /\ fetchlog # <<>> => base_ami # None
    /\ Called("run_instances") =>
          (Len(fetchlog) = Len(package_sources) /\ commands[1] = CmdUpdate)
    /\ Called("wait_instance_running") => instance_id # None
    /\ Called("create_image") => status = "Success"
    /\ Called("wait_image_available") => ami_id \in ImageIds
    /\ Called("put_parameter") =>
          /\ ami_id \in ImageIds
          /\ \A i \in DOMAIN calls :
                calls[i].op = "put_parameter" => calls[i].arg = ami_id
    /\ param_store # "ami-old" => (param_store = ami_id /\ Called("put_parameter"))
    /\ error.type \in {"ClientError", "WaiterError"} =>
          LastPipelineRequest = FailedRequest(error)

\* C8 witness: a run that went through every step and terminated
C8_Witness ==
    /\ pc = "done"
    /\ \A k \in 1..10 : \E i \in DOMAIN calls : Rank(calls[i].op) = k
    /\ CountCalls("get_command_invocation") >= 2
    /\ param_store = ami_id

RECURSIVE RefResolve(_)
\* scripts and package groups of a list of well-formed, fetched sources
RefResolve(entries) ==
    IF entries = <<>> THEN [commands |-> <<>>, package_list |-> <<>>]
    ELSE LET rest == RefResolve(SubSeq(entries, 1, Len(entries) - 1))
             e == entries[Len(entries)]
             fi == process_file_content(local_path(split_first(e.source)[2]), e.content)
         IN  IF fi.type = "script"
             THEN [rest EXCEPT !.commands = Append(@, fi.content)]
             ELSE [rest EXCEPT !.package_list = Append(@, fi.content)]

\* the processed sources that were well-formed and fetched, in input order
Fetched == SelectSeq(fetchlog, LAMBDA e : e.met = "fetched")

\* C9: a malformed descriptor or a failed fetch is skipped without aborting:
\* every source of the list is processed, the scripts and package groups
\* resolved equal those of the well-formed, fetched sources alone, in the
\* same order, and the run fails at planning only when that result is empty.
C9_IndependentSources ==
    /\ pc = "sources" =>
          /\ Len(fetchlog) = idx - 1
          /\ \A i \in DOMAIN fetchlog : fetchlog[i].source = package_sources[i]
          /\ commands = RefResolve(Fetched).commands
          /\ package_list = RefResolve(Fetched).package_list
    /\ Planned =>
          /\ Len(fetchlog) = Len(package_sources)
          /\ package_list = RefResolve(Fetched).package_list
          /\ error = NoCommandsError =>
                (RefResolve(Fetched).commands = <<>>
                   /\ RefResolve(Fetched).package_list = <<>>)
          /\ error # NoCommandsError =>
                /\ Len(commands) >= 3
                /\ LET body == SubSeq(commands, 2, Len(commands) - 2)
                       scripts == RefResolve(Fetched).commands
                   IN  SubSeq(body, Len(body) - Len(scripts) + 1, Len(body)) = scripts

\* C9 witness: a skipped source followed by a resolved one, and a plan
C9_Witness ==
    /\ pc = "launch"
    /\ Len(fetchlog) = 2
    /\ fetchlog[1].met \in {"invalid", "failed"}
    /\ fetchlog[2].met = "fetched"

\* the line of s that a character inserted after position pos falls into
LineAround(s, pos) ==
    LET before == {i \in 1..pos : s[i] \in LineBreaks}
        after == {i \in (pos + 1)..Len(s) : s[i] \in LineBreaks}
        lo == IF before = {} THEN 0 ELSE CHOOSE i \in before : \A j \in before : j <= i
        hi == IF after = {} THEN Len(s) + 1 ELSE CHOOSE i \in after : \A j \in after : i <= j
    IN  SubSeq(s, lo + 1, hi - 1)

IsCommentLine(line) == StartsWith(strip(line), <<"#">>)

Survivors(content) ==
    LET lines == splitlines(content)
        trimmed == [i \in 1..Len(lines) |-> strip(lines[i])]
    IN  SelectSeq(trimmed, LAMBDA l : l # <<>> /\ l[1] # "#")

\* every such line is made of token characters only
AllTokens(content) ==
    \A i \in 1..Len(Survivors(content)) :
        \A k \in 1..Len(Survivors(content)[i]) : Survivors(content)[i][k] \in TokenChars

HasShExtension(path) ==
    Len(path) >= 3 /\ <<path[Len(path) - 2], path[Len(path) - 1], path[Len(path)]>> = <<".", "s", "h">>

\* what the rules give when "begins with a shebang" is decided by shebang
ExpectedClass(path, content, shebang) ==
    IF HasShExtension(path) \/ shebang
    THEN [type |-> "script", content |-> content]
    ELSE IF AllTokens(content)
    THEN [type |-> "packages", content |-> join(<<" ">>, Survivors(content))]
    ELSE [type |-> "script", content |-> content]

\* C11 (as claimed): the classifier returns exactly one of Script and
\* PackageList; Script whenever the file name ends with .sh or the content
\* begins with a shebang naming bash or sh, whatever the body; otherwise
\* PackageList (the matching lines joined by single spaces, in order) exactly
\* when every trimmed non-blank non-comment line matches the token pattern,
\* and Script with the unmodified content otherwise.
C11_ShebangAlwaysScript ==
    c_pc = "classified" =>
        /\ c_result.type \in {"script", "packages"}
        /\ c_result = ExpectedClass(c_path, c_content, ShebangMatch(c_content))

\* C11 (amended): the same, with the shebang looked for in the first 100
\* characters of the content only.
C11_FirstMatchWins ==
    c_pc = "classified" =>
        /\ c_result.type \in {"script", "packages"}
        /\ c_result = ExpectedClass(c_path, c_content,
                                    ShebangMatch(SubSeq(c_content, 1, Min(100, Len(c_content)))))

\* C11 witness: a shebang naming sh past the 100th character, a package body
C11_Witness ==
    /\ c_pc = "classified"
    /\ Len(c_content) > 100
    /\ ShebangMatch(c_content)
    /\ c_result = [type |-> "packages", content |-> <<"s">>]

\* the requests issued so far other than fetches and status queries
SingleRequests ==
    SelectSeq(calls, LAMBDA c : c.op \notin {"download_file", "get_command_invocation"})

\* the try block ended with the failure of a provider request or wait
ProviderFailure == error.type \in {"ClientError", "WaiterError", "IndexError"}

\* C12: no provider action is retried: lookup, launch, wait-running,
\* submission, capture, wait-available, publication and termination are each
\* requested at most once, and after the failure of a request or wait of the
\* pipeline (a status query included) the pipeline has stopped: the failed
\* request is its last one and only the cleanup termination may follow.
C12_NoRetry ==
    /\ Cardinality({SingleRequests[i].op : i \in DOMAIN SingleRequests})
          = Len(SingleRequests)
    /\ ProviderFailure =>
          /\ pc \in {"finally", "exit", "done"}
          /\ LastPipelineRequest =
                (IF error.type = "IndexError" THEN "describe_images"
                 ELSE FailedRequest(error))
          /\ param_store = "ami-old"
          /\ Len(calls) >= 2 =>
                (calls[Len(calls) - 1].op # "terminate_instances")

\* C12 witness: a run whose image capture failed once and was not retried
C12_Witness ==
    /\ pc = "done"
    /\ error = Exc("ClientError", "create_image")
    /\ CountCalls("create_image") = 1
    /\ calls[Len(calls)].op = "terminate_instances"

\* the required configuration is missing or invalid
BadConfiguration ==
    \/ ~env.PACKAGE_SOURCES.present
    \/ ~env.PARAM_STORE_NAME
    \/ env.PACKAGE_SOURCES.raw.kind = "invalid"
    \/ env.PACKAGE_SOURCES.raw.items = <<>>

\* C13: when a required variable is absent, PACKAGE_SOURCES is not JSON or
\* PACKAGE_SOURCES is empty, the run ends without any provider request: no
\* lookup, no fetch, no launch, no parameter write.
C13_BadConfigNoProviderCall ==
    BadConfiguration =>
        /\ calls = <<>>
        /\ fetchlog = <<>>
        /\ base_ami = None
        /\ instance_id = None
        /\ param_store = "ami-old"
        /\ pc \in {"main", "config", "exit", "done"}

\* C13 witness: a finished run whose PACKAGE_SOURCES was not JSON
C13_Witness ==
    /\ pc = "done"
    /\ env.PACKAGE_SOURCES.present
    /\ env.PARAM_STORE_NAME
    /\ env.PACKAGE_SOURCES.raw.kind = "invalid"
    /\ calls = <<>>

\* the number of separators of a descriptor
SepCount(source) == Cardinality({i \in 1..Len(source) : source[i] = ":"})

\* the processed descriptors that were not skipped as malformed
Accepted == SelectSeq(fetchlog, LAMBDA e : e.met # "invalid")

\* the fetch requests issued so far
Downloads == SelectSeq(calls, LAMBDA c : c.op = "download_file")

Kind(e) == process_file_content(local_path(split_first(e.source)[2]), e.content)

FetchedScripts == SelectSeq(Fetched, LAMBDA e : Kind(e).type = "script")

FetchedPackages == SelectSeq(Fetched, LAMBDA e : Kind(e).type = "packages")

C17_EveryRunEnds == [](attempts <= MaxAttempts) /\ <>(pc = "done")

\* C17 witness: a run that used all 60 polls and then ended
C17_Witness ==
    /\ pc = "done"
    /\ attempts = MaxAttempts
    /\ status \in PendingStatuses
    /\ exit_code = 1

\* C18: when the base-image lookup fails, by a provider error or by an empty
\* answer, the run fails there: the lookup is the only provider request (no
\* fetch, no launch, no termination), no instance exists, and the failure
\* leaves the process with exit code 1.
C18_LookupFailureStopsRun ==
    (Called("describe_images") /\ base_ami = None) =>
        /\ pc \in {"finally", "exit", "done"}
        /\ error \in {Exc("ClientError", "describe_images"),
                      Exc("IndexError", "list index out of range")}
        /\ Len(calls) = 1
        /\ fetchlog = <<>>
        /\ instance_id = None
        /\ param_store = "ami-old"
        /\ pc \in {"exit", "done"} => raised = error
        /\ pc = "done" => exit_code = 1

\* C18 witness: a finished run whose lookup found no image
C18_Witness ==
    /\ pc = "done"
    /\ error = Exc("IndexError", "list index out of range")
    /\ calls = << [op |-> "describe_images", arg |-> <<>>] >>
    /\ exit_code = 1

\* C19: the parameter is written at most once, only with the id of the image
\* captured after a successful command and as the last pipeline request
\* (only the cleanup termination follows); a run that failed in the try
\* block leaves the parameter as it was.
C19_PublishOnceAndLast ==
    /\ CountCalls("put_parameter") <= 1
    /\ Called("put_parameter") =>
          /\ LastPipelineRequest = "put_parameter"
          /\ status = "Success"
          /\ ami_id # None
    /\ param_store # "ami-old" =>
          /\ param_store = ami_id
          /\ Called("put_parameter")
          /\ error = NoError
    /\ error # NoError => param_store = "ami-old"

\* C19 witness: a finished run that published, and one write was made
C19_Witness ==
    /\ pc = "done"
    /\ param_store = ami_id
    /\ CountCalls("put_parameter") = 1
    /\ calls[Len(calls)].op = "terminate_instances"

====
